---- MODULE Spec2Model ----
(***************************************************************************)
(* Model of the repo-cleaner Dashboard component                           *)
(* (src/src/components/Dashboard.tsx): the Collection Mirror (repos), the  *)
(* view state, the memoised filter/sort derivation, the page reset/clamp   *)
(* effects, the paged sync with its AbortController, and the deletion      *)
(* dialog.                                                                 *)
(*                                                                         *)
(* Strings are tuples of one-character strings so that trim, toLowerCase,  *)
(* includes and localeCompare are computed rather than assumed.            *)
(***************************************************************************)
EXTENDS Integers, Sequences, FiniteSets, TLC

(***************************************************************************)
(* Bounds of the model.                                                    *)
(***************************************************************************)
\* number of listing pages the server chains with rel="next"
MaxPages == 2
\* interventions of the user in one run: clicks on the trash button of a card
\* and changes of a control (the two reset buttons only restore defaults and
\* are not counted)
MaxUserOps == 1

(***************************************************************************)
(* Program constants.                                                      *)
(***************************************************************************)
REPOS_PER_PAGE == 12

\* deleteRepo === null
NoRepo == 0

\* url === null
NoUrl == <<"null">>

\* the urls of the listing: the first request and the page that follows
FirstUrl == <<"1">>

NextPageUrl == <<"2">>

\* a null description / language
NullStr == <<"null">>

(***************************************************************************)
(* Strings.                                                                *)
(***************************************************************************)
\* String.prototype.toLowerCase on one character
LowerChar(c) ==
  CASE c = "A" -> "a"
    [] c = "B" -> "b"
    [] c = "G" -> "g"
    [] OTHER -> c

toLowerCase(s) == [i \in 1..Len(s) |-> LowerChar(s[i])]

RECURSIVE TrimStart(_)
TrimStart(s) ==
  IF s # <<>> /\ Head(s) = " " THEN TrimStart(Tail(s)) ELSE s

RECURSIVE TrimEnd(_)
TrimEnd(s) ==
  IF s # <<>> /\ s[Len(s)] = " " THEN TrimEnd(SubSeq(s, 1, Len(s) - 1)) ELSE s

\* String.prototype.trim
trim(s) == TrimEnd(TrimStart(s))

\* String.prototype.includes
includes(s, q) ==
  \E i \in 0..(Len(s) - Len(q)) : SubSeq(s, i + 1, i + Len(q)) = q

\* position of a letter in the alphabet (primary collation weight)
Primary(c) ==
  CASE LowerChar(c) = "a" -> 1
    [] LowerChar(c) = "b" -> 2
    [] LowerChar(c) = "e" -> 5
    [] LowerChar(c) = "g" -> 7
    [] LowerChar(c) = "h" -> 8
    [] LowerChar(c) = "l" -> 12
    [] LowerChar(c) = "m" -> 13
    [] LowerChar(c) = "o" -> 15
    [] LowerChar(c) = "p" -> 16
    [] LowerChar(c) = "t" -> 20
    [] OTHER -> 0

\* tertiary collation weight: lower case sorts before upper case
Tertiary(c) == IF LowerChar(c) = c THEN 0 ELSE 1

PrimaryWeights(s) == [i \in 1..Len(s) |-> Primary(s[i])]

TertiaryWeights(s) == [i \in 1..Len(s) |-> Tertiary(s[i])]

RECURSIVE CompareWeights(_, _)
CompareWeights(a, b) ==
  IF a = <<>> /\ b = <<>> THEN 0
  ELSE IF a = <<>> THEN -1
  ELSE IF b = <<>> THEN 1
  ELSE IF Head(a) # Head(b) THEN Head(a) - Head(b)
  ELSE CompareWeights(Tail(a), Tail(b))

\* String.prototype.localeCompare: letters first, case only breaks ties
localeCompare(a, b) ==
  LET p == CompareWeights(PrimaryWeights(a), PrimaryWeights(b))
  IN IF p # 0 THEN p ELSE CompareWeights(TertiaryWeights(a), TertiaryWeights(b))

(***************************************************************************)
(* The repositories the listing endpoint can return.  A Repository is      *)
(* immutable once fetched, so the mirror holds ids and the fields are a    *)
(* function of the id.                                                     *)
(***************************************************************************)
NumRepos == 25

RepoIds == 1..NumRepos

RepoName(id) ==
  CASE id = 1 -> <<"b", "e", "t", "a">>
    [] id = 2 -> <<"A", "l", "p", "h", "a">>
    [] id = 3 -> <<"g", "a", "m", "m", "a">>
    [] OTHER -> <<(<<"a", "B", "g", "t">>)[(id % 4) + 1],
                  (<<"a", "b", "e", "o">>)[((id \div 4) % 4) + 1]>>

RepoDescription(id) ==
  CASE id % 4 = 0 -> NullStr
    [] id % 4 = 1 -> <<"a", " ", "b">>
    [] id % 4 = 2 -> <<"G", "o", " ", "t", "o">>
    [] OTHER -> <<"t", "e", "a">>

RepoLanguage(id) ==
  CASE id % 3 = 0 -> NullStr
    [] id % 3 = 1 -> <<"G", "o">>
    [] OTHER -> <<"h", "t", "m", "l">>

\* interface Repository
Repository(id) ==
  [id |-> id,
   name |-> RepoName(id),
   description |-> RepoDescription(id),
   language |-> RepoLanguage(id),
   private |-> (id % 2 = 0),
   fork |-> (id % 3 = 1),
   stargazers_count |-> id % 3,
   forks_count |-> id % 2,
   updated_at |-> (id * 3) % 7]

\* the records, the name comparisons and the lower-cased fields, tabulated
Repo == [id \in RepoIds |-> Repository(id)]

NameOrder ==
  [a \in RepoIds |-> [b \in RepoIds |-> localeCompare(RepoName(a), RepoName(b))]]

LowerFields ==
  [id \in RepoIds |->
     [name |-> toLowerCase(RepoName(id)),
      description |-> toLowerCase(RepoDescription(id)),
      language |-> toLowerCase(RepoLanguage(id))]]

\* bodies of a listing response
SmallBody == <<1, 2, 3>>

BigBody == [i \in 1..13 |-> i]

\* a page of the listing that is followed by another
FullBody == BigBody

PageBodies == {<<>>, SmallBody, BigBody}

\* texts typed into the search box
SearchTexts == {<<>>, <<" ">>, <<"G", "o", " ">>, <<" ", "G", "o">>, <<"B">>}

AllFilter == <<"a", "l", "l">>

(***************************************************************************)
(* filteredRepos (useMemo): the filter chain and the in-place sort.        *)
(***************************************************************************)
\* variant: the fields are compared without toLowerCase
MatchesSearchCaseSensitive(id, q) ==
  \/ includes(Repo[id].name, q)
  \/ (Repo[id].description # NullStr /\ includes(Repo[id].description, q))
  \/ (Repo[id].language # NullStr /\ includes(Repo[id].language, q))

\* the predicate of the search filter
MatchesSearch(id, q) ==
  \/ includes(LowerFields[id].name, q)
  \/ (Repo[id].description # NullStr /\ includes(LowerFields[id].description, q))
  \/ (Repo[id].language # NullStr /\ includes(LowerFields[id].language, q))

\* a comparator that ignores the sort direction
ComparisonAscOnly(a, b, by, order) ==
  CASE by = "name" -> NameOrder[a][b]
    [] by = "updated" -> Repo[a].updated_at - Repo[b].updated_at
    [] by = "stars" -> Repo[a].stargazers_count - Repo[b].stargazers_count
    [] by = "forks" -> Repo[a].forks_count - Repo[b].forks_count

\* the comparator handed to items.sort
Comparison(a, b, by, order) ==
  LET comparison ==
        CASE by = "name" -> NameOrder[a][b]
          [] by = "updated" -> Repo[a].updated_at - Repo[b].updated_at
          [] by = "stars" -> Repo[a].stargazers_count - Repo[b].stargazers_count
          [] by = "forks" -> Repo[a].forks_count - Repo[b].forks_count
  IN IF order = "asc" THEN comparison ELSE -comparison

\* a merge that lets the element of the right run go first on a tie
RECURSIVE MergeRightFirstOnTie(_, _, _, _)
MergeRightFirstOnTie(left, right, by, order) ==
  IF left = <<>> THEN right
  ELSE IF right = <<>> THEN left
  ELSE IF Comparison(Head(right), Head(left), by, order) <= 0
    THEN <<Head(right)>> \o MergeRightFirstOnTie(left, Tail(right), by, order)
  ELSE <<Head(left)>> \o MergeRightFirstOnTie(Tail(left), right, by, order)

\* merge of two sorted runs; on a tie the element of the left run goes first
RECURSIVE Merge(_, _, _, _)
Merge(left, right, by, order) ==
  IF left = <<>> THEN right
  ELSE IF right = <<>> THEN left
  ELSE IF Comparison(Head(right), Head(left), by, order) < 0
    THEN <<Head(right)>> \o Merge(left, Tail(right), by, order)
  ELSE <<Head(left)>> \o Merge(Tail(left), right, by, order)

\* Array.prototype.sort: a stable merge sort by the comparator
RECURSIVE SortItems(_, _, _)
SortItems(items, by, order) ==
  IF Len(items) <= 1 THEN items
  ELSE LET half == Len(items) \div 2
       IN Merge(SortItems(SubSeq(items, 1, half), by, order),
                SortItems(SubSeq(items, half + 1, Len(items)), by, order),
                by, order)

\* the view state read by the memo
ViewOf(q, vis, frk, lang, by, order) ==
  [searchQuery |-> q, visibilityFilter |-> vis, forkFilter |-> frk,
   languageFilter |-> lang, sortBy |-> by, sortOrder |-> order]

\* items as the memo starts: the repos array itself, not a copy
Aliased(mirror) == [items |-> mirror, copied |-> FALSE]

\* search filter: applied only when the trimmed, lower-cased query is not empty
SearchBy(st, q) ==
  LET Keep(id) == MatchesSearch(id, q)
  IN IF q # <<>> THEN [items |-> SelectSeq(st.items, Keep), copied |-> TRUE]
     ELSE st

\* variant: the search text is used as typed
ApplySearchUntrimmed(st, searchText) == SearchBy(st, toLowerCase(searchText))

\* const q = searchQuery.trim().toLowerCase(), then the search filter
ApplySearch(st, searchText) == SearchBy(st, toLowerCase(trim(searchText)))

ApplyVisibility(st, vis) ==
  LET KeepPublic(id) == ~Repo[id].private
      KeepPrivate(id) == Repo[id].private
  IN CASE vis = "public" -> [items |-> SelectSeq(st.items, KeepPublic), copied |-> TRUE]
       [] vis = "private" -> [items |-> SelectSeq(st.items, KeepPrivate), copied |-> TRUE]
       [] OTHER -> st

ApplyFork(st, frk) ==
  LET KeepSource(id) == ~Repo[id].fork
      KeepForks(id) == Repo[id].fork
  IN CASE frk = "source" -> [items |-> SelectSeq(st.items, KeepSource), copied |-> TRUE]
       [] frk = "forks" -> [items |-> SelectSeq(st.items, KeepForks), copied |-> TRUE]
       [] OTHER -> st

ApplyLanguage(st, lang) ==
  LET Keep(id) == Repo[id].language = lang
  IN IF lang # AllFilter
       THEN [items |-> SelectSeq(st.items, Keep), copied |-> TRUE]
     ELSE st

\* items.sort(...): the array items refers to is sorted in place, so the
\* mirror is reordered when no filter has replaced items by a copy
SortInPlace(sorted, copied, mirror) ==
  [filteredRepos |-> sorted, repos |-> IF copied THEN mirror ELSE sorted]

ApplySort(st, mirror, by, order) ==
  SortInPlace(SortItems(st.items, by, order), st.copied, mirror)

\* The body of the useMemo.  items starts as the repos array itself; each
\* filter that applies replaces it by a fresh array; items.sort then sorts
\* whatever array items is, in place.  The result is the value of the memo
\* and the contents of the repos array afterwards.
Derive(mirror, view) ==
  ApplySort(
    ApplyLanguage(
      ApplyFork(
        ApplyVisibility(
          ApplySearch(Aliased(mirror), view.searchQuery),
          view.visibilityFilter),
        view.forkFilter),
      view.languageFilter),
    mirror, view.sortBy, view.sortOrder)

(***************************************************************************)
(* Pagination.                                                             *)
(***************************************************************************)
\* Math.ceil(n / REPOS_PER_PAGE)
CeilPages(n) == (n + REPOS_PER_PAGE - 1) \div REPOS_PER_PAGE

Max(a, b) == IF a > b THEN a ELSE b

Min(a, b) == IF a < b THEN a ELSE b

totalPagesOf(filtered) == Max(1, CeilPages(Len(filtered)))

\* Array.prototype.slice(start, end): a negative index counts from the end,
\* indices beyond the array are dropped
Slice(items, start, end) ==
  LET Index(k) == IF k < 0 THEN Max(Len(items) + k, 0) ELSE Min(k, Len(items))
      lo == Index(start)
      hi == Index(end)
  IN IF lo >= hi THEN <<>> ELSE SubSeq(items, lo + 1, hi)

\* variant: the page index taken as an offset in pages, counted from 0
paginatedReposOfZeroBased(filtered, page) ==
  LET startIndex == page * REPOS_PER_PAGE
  IN Slice(filtered, startIndex, startIndex + REPOS_PER_PAGE)

paginatedReposOf(filtered, page) ==
  LET startIndex == (page - 1) * REPOS_PER_PAGE
  IN Slice(filtered, startIndex, startIndex + REPOS_PER_PAGE)

\* the "ellipsis" entry of the page strip
Ellipsis == 0

\* variant: the window at the end starts one page later
getPageNumbersLateEnd(total, page) ==
  IF total <= 5 THEN [i \in 1..total |-> i]
  ELSE IF page <= 3 THEN <<1, 2, 3, 4, Ellipsis, total>>
  ELSE IF page >= total - 1
    THEN <<1, Ellipsis, total - 3, total - 2, total - 1, total>>
  ELSE <<1, Ellipsis, page - 1, page, page + 1, Ellipsis, total>>

getPageNumbers(total, page) ==
  IF total <= 5 THEN [i \in 1..total |-> i]
  ELSE IF page <= 3 THEN <<1, 2, 3, 4, Ellipsis, total>>
  ELSE IF page >= total - 2
    THEN <<1, Ellipsis, total - 3, total - 2, total - 1, total>>
  ELSE <<1, Ellipsis, page - 1, page, page + 1, Ellipsis, total>>

\* variant: the clamp effect without its branch for the empty result
ClampEffectNoEmptyBranch(page, filtered) ==
  LET total == CeilPages(Len(filtered))
  IN IF page > total /\ total > 0 THEN total ELSE page

\* variant: no clamp effect
ClampEffectOff(page, filtered) == page

\* the page the clamp effect leaves, run with the rendered page and result
ClampEffect(page, filtered) ==
  LET total == CeilPages(Len(filtered))
  IN IF page > total /\ total > 0 THEN total
     ELSE IF total = 0 /\ page # 1 THEN 1
     ELSE page

\* One flush of the effects of a render.  The reset effect runs when a filter
\* or sort dependency changed and queues setCurrentPage(1); the clamp effect
\* runs after it with the page of the same render and queues its own update;
\* the queued updates are applied in order, so the later one wins.
EffectsFlush(page, criteriaChanged, filtered) ==
  LET afterReset == IF criteriaChanged THEN 1 ELSE page
      clamped == ClampEffect(page, filtered)
  IN IF clamped # page THEN clamped ELSE afterReset

\* The effects of a render of the memo value d, and of the render the page
\* update causes, which flushes the clamp effect once more.
Paged(d, page, criteriaChanged) ==
  [repos |-> d.repos,
   filteredRepos |-> d.filteredRepos,
   currentPage |->
     EffectsFlush(EffectsFlush(page, criteriaChanged, d.filteredRepos), FALSE,
                  d.filteredRepos)]

\* What a render and its effects leave when a dependency of the memo changed:
\* the memo is recomputed and the effects are flushed.
Rendered(mirror, view, page, criteriaChanged) ==
  Paged(Derive(mirror, view), page, criteriaChanged)

\* What a render and its effects leave when the memo is still valid.
RenderedSameMemo(mirror, memo, page) ==
  Paged([filteredRepos |-> memo, repos |-> mirror], page, FALSE)

(***************************************************************************)
(* SetupPage and Index: credentialsSchema, the stored items, the session.  *)
(***************************************************************************)
\* [a-zA-Z0-9]
AlphaNumerics ==
  {"a", "b", "c", "d", "e", "f", "g", "h", "i", "j", "k", "l", "m",
   "n", "o", "p", "q", "r", "s", "t", "u", "v", "w", "x", "y", "z"}
    \cup
  {"A", "B", "C", "D", "E", "F", "G", "H", "I", "J", "K", "L", "M",
   "N", "O", "P", "Q", "R", "S", "T", "U", "V", "W", "X", "Y", "Z"}
    \cup {"0", "1", "2", "3", "4", "5", "6", "7", "8", "9"}

\* .max(39) of the username
MaxUsernameLength == 39

\* .max(255) of the token
MaxTokenLength == 255

\* one or more characters of a class: ^[...]+$
AllIn(text, chars) ==
  /\ text # <<>>
  /\ \A i \in 1..Len(text) : text[i] \in chars

\* /^[a-zA-Z0-9-]+$/
UsernamePattern(text) == AllIn(text, AlphaNumerics \cup {"-"})

\* /^(ghp_|github_pat_)[a-zA-Z0-9_]+$/
TokenPattern(text) ==
  \E prefix \in {<<"g", "h", "p", "_">>, <<"g", "i", "t", "h", "u", "b", "_", "p", "a", "t", "_">>} :
    /\ Len(prefix) <= Len(text)
    /\ SubSeq(text, 1, Len(prefix)) = prefix
    /\ AllIn(SubSeq(text, Len(prefix) + 1, Len(text)), AlphaNumerics \cup {"_"})

\* the messages of the schema
UsernameMessages ==
  [too_small |-> "Username cannot be empty",
   too_big |-> "Username must be less than 39 characters",
   invalid_string |-> "Username can only contain alphanumeric characters and hyphens"]

TokenMessages ==
  [too_small |-> "Token cannot be empty",
   too_big |-> "Token must be less than 255 characters",
   invalid_string |-> "Invalid GitHub token format. Must start with 'ghp_' or 'github_pat_'"]

\* z.string().trim().min(1).max(n).regex(re): the checks run in the order
\* written on the text the trim left, and every failed check adds an issue
StringIssues(data, maxLength, matches) ==
  (IF Len(data) < 1 THEN <<"too_small">> ELSE <<>>)
    \o (IF Len(data) > maxLength THEN <<"too_big">> ELSE <<>>)
    \o (IF ~matches THEN <<"invalid_string">> ELSE <<>>)

\* variant: the username without its .max(39)
UsernameIssuesNoMax(text) ==
  StringIssues(trim(text), Len(text), UsernamePattern(trim(text)))

UsernameIssues(text) ==
  StringIssues(trim(text), MaxUsernameLength, UsernamePattern(trim(text)))

TokenIssues(text) ==
  StringIssues(trim(text), MaxTokenLength, TokenPattern(trim(text)))

\* credentialsSchema.safeParse({username, token})
safeParse(usernameText, tokenText) ==
  [success |-> UsernameIssues(usernameText) = <<>> /\ TokenIssues(tokenText) = <<>>,
   data |-> [username |-> trim(usernameText), token |-> trim(tokenText)],
   usernameIssues |-> UsernameIssues(usernameText),
   tokenIssues |-> TokenIssues(tokenText)]

\* errors = {}
NoErrors == [username |-> "", token |-> ""]

\* fieldErrors: the forEach keeps the message of the last issue of a field
LastMessage(issues, messages) ==
  IF issues = <<>> THEN "" ELSE messages[issues[Len(issues)]]

FieldErrors(result) ==
  [username |-> LastMessage(result.usernameIssues, UsernameMessages),
   token |-> LastMessage(result.tokenIssues, TokenMessages)]

\* the items github_username and github_token; NullStr is an absent item
Stored(u, t) == [github_username |-> u, github_token |-> t]

EmptyStorage == Stored(NullStr, NullStr)

\* the credentials state of Index
Credentials(u, t) == [username |-> u, token |-> t]

\* credentials === null
NoCredentials == Credentials(NullStr, NullStr)

\* Index useEffect: the session taken from the stored items if both are
\* present and not empty
CredentialsFromStorage(storage) ==
  IF /\ storage.github_username # NullStr /\ storage.github_username # <<>>
     /\ storage.github_token # NullStr /\ storage.github_token # <<>>
    THEN Credentials(storage.github_username, storage.github_token)
    ELSE NoCredentials

Repeated(c, n) == [i \in 1..n |-> c]

\* the credentials of the session the Dashboard runs in
KnownUsername == <<"o", "c", "t", "o", "-", "C", "a", "t", "1">>

KnownToken == <<"g", "h", "p", "_", "A", "b", "1", "_", "x">>

\* texts typed into the username input
SampleUsernames ==
  {<<>>, <<" ">>, KnownUsername, <<" ">> \o KnownUsername \o <<" ">>,
   <<"o", "c", "t", "o", "_", "c", "a", "t">>, <<"o", "c", "t", "o", " ", "c", "a", "t">>,
   Repeated("a", MaxUsernameLength), Repeated("a", MaxUsernameLength + 1),
   <<" ">> \o Repeated("a", MaxUsernameLength) \o <<" ">>}

\* texts typed into the token input
SampleTokens ==
  {<<>>, KnownToken, <<" ">> \o <<"g", "i", "t", "h", "u", "b", "_", "p", "a", "t", "_", "x", "1">> \o <<" ">>,
   <<"g", "h", "p", "_">>, <<"g", "h", "o", "_", "a", "b", "c">>, <<"g", "h", "p", "_", "a", "-", "b">>, <<"x", "g", "h", "p", "_", "a", "b", "c">>,
   <<"g", "h", "p", "_">> \o Repeated("a", MaxTokenLength - 4),
   <<"g", "h", "p", "_">> \o Repeated("a", MaxTokenLength - 3)}

(***************************************************************************)
(* State.                                                                  *)
(***************************************************************************)
VARIABLES
  repos,             \* useState<Repository[]>: the Collection Mirror
  filteredRepos,     \* value of the useMemo
  userProfile,       \* "none" or "loaded"
  loading,
  currentPage,
  deleteRepo,        \* id awaiting confirmation, or NoRepo
  deleting,
  searchQuery,
  visibilityFilter,
  forkFilter,
  languageFilter,
  sortBy,
  sortOrder,
  sync,              \* the current run of fetchAllSequential
  deleteCalls,       \* targets of the handleDeleteRepo calls awaiting fetch
  nDeletes,          \* DELETE requests issued so far
  nRequests,         \* clicks on the trash button of a card so far
  toasts,            \* the notifications raised by the last step
  lastOp,            \* name of the last step taken
  nViewOps,          \* filter / sort changes made so far
  username,          \* SetupPage: text of the username input
  token,             \* SetupPage: text of the token input
  errors,            \* SetupPage: the message shown under each input
  localStorage,      \* the two items the application keeps
  credentials        \* Index: the session, or NoCredentials

vars ==
  <<repos, filteredRepos, userProfile, loading, currentPage, deleteRepo,
    deleting, searchQuery, visibilityFilter, forkFilter, languageFilter,
    sortBy, sortOrder, sync, deleteCalls, nDeletes, nRequests, toasts,
    lastOp, nViewOps, username, token, errors, localStorage, credentials>>

setupVars == <<username, token, errors, localStorage, credentials>>

viewVars ==
  <<searchQuery, visibilityFilter, forkFilter, languageFilter, sortBy, sortOrder>>

syncVars == <<sync, userProfile, loading>>

dialogVars == <<deleteRepo, deleting, deleteCalls, nDeletes, nRequests>>

view ==
  ViewOf(searchQuery, visibilityFilter, forkFilter, languageFilter, sortBy, sortOrder)

totalPages == totalPagesOf(filteredRepos)

paginatedRepos == paginatedReposOf(filteredRepos, currentPage)

\* interventions of the user so far
UserOps == nRequests + nViewOps

\* a run of fetchAllSequential with its AbortController
NewSync ==
  [pc |-> "profile",      \* "profile", "repos" or "done"
   allRepos |-> <<>>,     \* the accumulator of fetchRepos
   url |-> FirstUrl,      \* the url of the pending listing request
   link |-> NullStr,      \* the Link header of the response being handled
   page |-> 0,            \* listing requests answered
   inFlight |-> 0,        \* listing requests of the run that are outstanding
   wrote |-> FALSE,       \* this run called setRepos
   notified |-> 0,        \* failure notifications raised by the run so far
   deleted |-> {},        \* ids deleted during the run that no listing request
                          \* issued after their deletion has returned
   deletedInFlight |-> {}]  \* those deleted since the pending request was issued

\* a run that has returned
DoneSync ==
  [pc |-> "done", allRepos |-> <<>>, url |-> NoUrl, link |-> NullStr,
   page |-> 0, inFlight |-> 0, wrote |-> FALSE, notified |-> 0,
   deleted |-> {}, deletedInFlight |-> {}]

\* a deletion settles with success while the run awaits a listing response:
\* the pending request and the pages already received are older than it
AfterDeletion(run, id) ==
  IF run.pc = "repos"
    THEN [run EXCEPT !.deleted = @ \cup {id}, !.deletedInFlight = @ \cup {id}]
  ELSE run

\* the deleted ids once a listing response has arrived: an id the response
\* returns is not counted any more when its request was issued after the
\* deletion
StillDeleted(run, body) ==
  run.deleted \ ({body[i] : i \in 1..Len(body)} \ run.deletedInFlight)

\* The step taken last, with the detail the properties refer to: the page
\* shown before a step that renders a new result, the number of listing
\* pages received by a run that is cancelled, the number of items received by
\* a run that fails.
Op(name, arg) == [name |-> name, arg |-> arg]

\* a step in which a fetch failed, with what it failed with
FailedOp(name, arg, error) == [name |-> name, arg |-> arg, error |-> error]

Toast(title, description, variant) ==
  [title |-> title, description |-> description, variant |-> variant]

\* Index renders the Dashboard: a session was started by the SetupPage, which
\* is unmounted, and the two items are stored
SignedIn ==
  /\ username = <<>>
  /\ token = <<>>
  /\ errors = NoErrors
  /\ localStorage = Stored(KnownUsername, KnownToken)
  /\ credentials = Credentials(KnownUsername, KnownToken)

\* state after the mount of the Dashboard: the effect has started the first
\* sync, which awaits the profile response
Init ==
  /\ repos = <<>>
  /\ filteredRepos = <<>>
  /\ userProfile = "none"
  /\ loading = TRUE
  /\ currentPage = 1
  /\ deleteRepo = NoRepo
  /\ deleting = FALSE
  /\ searchQuery = <<>>
  /\ visibilityFilter = "all"
  /\ forkFilter = "all"
  /\ languageFilter = AllFilter
  /\ sortBy = "name"
  /\ sortOrder = "asc"
  /\ sync = NewSync
  /\ deleteCalls = <<>>
  /\ nDeletes = 0
  /\ nRequests = 0
  /\ toasts = <<>>
  /\ lastOp = Op("mount", 0)
  /\ nViewOps = 0
  /\ SignedIn

(***************************************************************************)
(* The sync: fetchAllSequential, fetchUserProfile, fetchRepos.             *)
(***************************************************************************)
\* the relations of a Link header
RelNext == <<"n", "e", "x", "t">>

RelPrev == <<"p", "r", "e", "v">>

\* an entry of a Link header before it is written out
LinkEntry(url, rel) == [url |-> url, rel |-> rel]

\* the text of an entry: <url>; rel="name"
LinkValue(entry) ==
  <<"<">> \o entry.url \o <<">", ";", " ", "r", "e", "l", "=", "\"">>
    \o entry.rel \o <<"\"">>

\* the text of a Link header: the entries separated by a comma and a space
RECURSIVE LinkHeader(_)
LinkHeader(entries) ==
  IF entries = <<>> THEN <<>>
  ELSE IF Len(entries) = 1 THEN LinkValue(Head(entries))
  ELSE LinkValue(Head(entries)) \o <<",", " ">> \o LinkHeader(Tail(entries))

\* response.headers.get("link") of the listing responses: null when the
\* header is absent
LinkHeaders ==
  {NullStr,
   LinkHeader(<<LinkEntry(FirstUrl, RelPrev)>>),
   LinkHeader(<<LinkEntry(NextPageUrl, RelNext), LinkEntry(FirstUrl, RelPrev)>>),
   LinkHeader(<<LinkEntry(FirstUrl, RelPrev), LinkEntry(NextPageUrl, RelNext)>>)}

\* String.prototype.split on a separator of one character
RECURSIVE SplitFrom(_, _, _)
SplitFrom(s, separator, part) ==
  IF s = <<>> THEN <<part>>
  ELSE IF Head(s) = separator
    THEN <<part>> \o SplitFrom(Tail(s), separator, <<>>)
  ELSE SplitFrom(Tail(s), separator, Append(part, Head(s)))

split(s, separator) == SplitFrom(s, separator, <<>>)

\* position of the first c in s at or after position i, 0 if there is none
RECURSIVE IndexFrom(_, _, _)
IndexFrom(s, c, i) ==
  IF i > Len(s) THEN 0
  ELSE IF s[i] = c THEN i
  ELSE IndexFrom(s, c, i + 1)

\* position of the first character at or after i that is not white space
RECURSIVE SkipSpaces(_, _)
SkipSpaces(s, i) ==
  IF i <= Len(s) /\ s[i] = " " THEN SkipSpaces(s, i + 1) ELSE i

\* the text lit stands in s at position i
StartsAt(s, i, lit) ==
  /\ i >= 1
  /\ i + Len(lit) - 1 <= Len(s)
  /\ SubSeq(s, i, i + Len(lit) - 1) = lit

\* String.prototype.match returned null
NoMatch == [url |-> <<>>, rel |-> <<>>]

\* the match of /<([^>]+)>;\s*rel="([^"]+)"/ that starts at position i
MatchAt(part, i) ==
  LET close == IndexFrom(part, ">", i + 1)
      relAt == SkipSpaces(part, close + 2)
      open == relAt + 5
      quote == IndexFrom(part, "\"", open)
  IN IF /\ part[i] = "<"
        /\ close > i + 1
        /\ StartsAt(part, close + 1, <<";">>)
        /\ StartsAt(part, relAt, <<"r", "e", "l", "=", "\"">>)
        /\ quote > open
       THEN [url |-> SubSeq(part, i + 1, close - 1),
             rel |-> SubSeq(part, open, quote - 1)]
     ELSE NoMatch

\* part.match(...): the leftmost match
RECURSIVE MatchFrom(_, _)
MatchFrom(part, i) ==
  IF i > Len(part) THEN NoMatch
  ELSE IF MatchAt(part, i) # NoMatch THEN MatchAt(part, i)
  ELSE MatchFrom(part, i + 1)

\* the loop over the parts: the url of the first part whose rel is "next"
RECURSIVE NextAmong(_)
NextAmong(parts) ==
  IF parts = <<>> THEN NoUrl
  ELSE LET match == MatchFrom(Head(parts), 1)
       IN IF match # NoMatch /\ match.rel = RelNext THEN match.url
          ELSE NextAmong(Tail(parts))

\* variant: only the first part of the header is looked at
getNextUrlFromFirstLink(linkHeader) ==
  IF linkHeader = NullStr \/ linkHeader = <<>> THEN NoUrl
  ELSE NextAmong(<<Head(split(linkHeader, ","))>>)

getNextUrlFromLink(linkHeader) ==
  IF linkHeader = NullStr \/ linkHeader = <<>> THEN NoUrl
  ELSE NextAmong(split(linkHeader, ","))

\* what a fetch can end in, other than a 2xx response with a JSON body:
\* a non-2xx response without or with a message in its JSON body, a network
\* error, a 2xx response whose body is not an array
ProfileFailures == {"http", "http_message", "network"}

ReposFailures == {"http", "http_message", "network", "shape"}

\* What error.message carries.  fetchUserProfile and fetchRepos throw
\* `Failed to fetch ...: ${response.status} ${response.statusText}` for a
\* non-2xx response and do not read its body.
ProfileErrorMessage(error) ==
  CASE error \in {"http", "http_message"} -> <<"status">>
    [] OTHER -> <<"cause">>

ReposErrorMessage(error) ==
  CASE error \in {"http", "http_message"} -> <<"status">>
    [] error = "shape" -> <<"shape">>
    [] OTHER -> <<"cause">>

\* handleDeleteRepo appends body.message to the status line when the body of
\* the non-2xx response is JSON and has one
DeleteErrorMessage(error) ==
  CASE error = "http" -> <<"status">>
    [] error = "http_message" -> <<"status", "message">>
    [] OTHER -> <<"cause">>

\* catch of fetchUserProfile: the toasts it raises for an error
CatchProfile(error) ==
  IF error = "abort" THEN <<>>
  ELSE <<Toast("Error fetching profile", ProfileErrorMessage(error), "destructive")>>

\* variant: the catch of fetchRepos without the AbortError test
CatchReposAnyError(error) ==
  <<Toast("Error fetching repositories", ReposErrorMessage(error), "destructive")>>

\* catch of fetchRepos: the toasts it raises for an error
CatchRepos(error) ==
  IF error = "abort" THEN <<>>
  ELSE <<Toast("Error fetching repositories", ReposErrorMessage(error), "destructive")>>

\* variant: setRepos after every page
SetReposEveryPage(allRepos, url) == <<allRepos>>

\* the setRepos calls fetchRepos makes once a page has been pushed onto
\* allRepos and the next url is known
SetReposAfterPage(allRepos, url) ==
  IF url = NoUrl THEN <<allRepos>> ELSE <<>>

\* The effect cleanup and re-run on a new token.  The cleanup calls
\* controller.abort(): the pending fetch of the previous run rejects with
\* AbortError and the run settles in the microtasks that follow, before any
\* other event is handled.  The new run has called setLoading(true) by then.
\* A run aborted during the profile fetch goes on to fetchRepos, whose
\* setLoading(true) and fetch on the aborted signal reject at once; the catch
\* of fetchRepos returns and both finally blocks call setLoading(false).
AbortedRun(run) ==
  LET pending == run.pc # "done"
      profileToasts == IF run.pc = "profile" THEN CatchProfile("abort") ELSE <<>>
      reposToasts == IF pending THEN CatchRepos("abort") ELSE <<>>
  IN [toasts |-> profileToasts \o reposToasts,
      loading |-> IF pending THEN FALSE ELSE TRUE,
      cancelled |-> pending]

TokenChange ==
  LET settled == AbortedRun(sync)
  IN /\ sync' = NewSync
     /\ loading' = settled.loading
     /\ toasts' = settled.toasts
     /\ lastOp' = Op("TokenChange", IF settled.cancelled THEN sync.page ELSE -1)
     /\ UNCHANGED <<setupVars, repos, filteredRepos, userProfile, currentPage, viewVars,
                    dialogVars, nViewOps>>

\* variant: the catch of fetchUserProfile throws the error on
AfterProfileRethrown(outcome) == IF outcome = "ok" THEN "repos" ELSE "done"

\* where fetchAllSequential goes once fetchUserProfile has returned: the
\* catch of fetchUserProfile swallows every error, so fetchRepos is awaited
AfterProfile(outcome) == "repos"

\* the notifications of a profile response
ProfileToasts(outcome) == IF outcome = "ok" THEN <<>> ELSE CatchProfile(outcome)

\* the profile fetch settles; fetchRepos then starts with setLoading(true)
\* and the first listing request
ProfileResponse(outcome) ==
  /\ sync.pc = "profile"
  /\ userProfile' = IF outcome = "ok" THEN "loaded" ELSE userProfile
  /\ toasts' = ProfileToasts(outcome)
  /\ sync' = [sync EXCEPT !.pc = AfterProfile(outcome),
                          !.inFlight = IF AfterProfile(outcome) = "repos" THEN 1 ELSE 0,
                          !.notified = @ + Len(ProfileToasts(outcome))]
  /\ loading' = TRUE
  /\ lastOp' = IF outcome = "ok" THEN Op("ProfileOk", 0)
               ELSE FailedOp("ProfileFailed", 0, outcome)
  /\ UNCHANGED <<setupVars, repos, filteredRepos, currentPage, viewVars, dialogVars,
                 nViewOps>>

\* listing requests issued once a listing response has been handled: the
\* loop fetches the next url if there is one
RequestsAfterPage(url) == IF url # NoUrl THEN 1 ELSE 0

\* variant: a failed listing request is tried again
RetriesAfterFailureAlways(error) == TRUE

\* whether a listing request is issued once a listing request has failed:
\* the throw leaves the loop and the catch returns, whatever the error
RetriesAfterFailure(error) == FALSE

\* variant: the loop goes on whatever the next url is
LoopContinuesAlways(url) == TRUE

\* while (url)
LoopContinues(url) == url # NoUrl

\* getNextUrlFromLink of the Link headers of the listing, tabulated
NextUrlOf == [h \in LinkHeaders |-> getNextUrlFromLink(h)]

\* a listing response: 2xx with an array body and a Link header; the endpoint
\* fills every page but the last
ReposPage(body, linkHeader) ==
  LET allRepos == sync.allRepos \o body
      url == NextUrlOf[linkHeader]
      sets == SetReposAfterPage(allRepos, url)
  IN /\ sync.pc = "repos"
     /\ url # NoUrl => (sync.page + 1 < MaxPages /\ body = FullBody)
     /\ sync' = IF ~LoopContinues(url)
                  THEN [DoneSync EXCEPT !.wrote = sets # <<>>,
                                        !.inFlight = sync.inFlight - 1
                                                       + RequestsAfterPage(url),
                                        !.deleted = StillDeleted(sync, body)]
                  ELSE [sync EXCEPT !.allRepos = allRepos, !.url = url,
                                    !.page = @ + 1, !.wrote = @ \/ sets # <<>>,
                                    !.inFlight = @ - 1 + RequestsAfterPage(url),
                                    !.deleted = StillDeleted(sync, body),
                                    !.deletedInFlight = {}]
     /\ \E r \in {IF sets # <<>>
                     THEN Rendered(sets[Len(sets)], view, currentPage, FALSE)
                   ELSE RenderedSameMemo(repos, filteredRepos, currentPage)} :
          /\ repos' = r.repos
          /\ filteredRepos' = r.filteredRepos
          /\ currentPage' = r.currentPage
     /\ loading' = IF ~LoopContinues(url) THEN FALSE ELSE loading
     /\ toasts' = <<>>
     /\ lastOp' = IF ~LoopContinues(url) THEN Op("SyncCommitted", currentPage)
                  ELSE Op("PageReceived", 0)
     /\ UNCHANGED <<setupVars, userProfile, viewVars, dialogVars, nViewOps>>

\* a listing request fails: non-2xx, network error, or a body that is not an
\* array
ReposFailure(error) ==
  /\ sync.pc = "repos"
  /\ toasts' = CatchRepos(error)
  /\ sync' = [DoneSync EXCEPT !.wrote = sync.wrote,
                              !.inFlight = sync.inFlight - 1
                                             + (IF RetriesAfterFailure(error)
                                                  THEN 1 ELSE 0)]
  /\ loading' = FALSE
  /\ lastOp' = FailedOp("ReposFailed", Len(sync.allRepos), error)
  /\ UNCHANGED <<setupVars, repos, filteredRepos, userProfile, currentPage, viewVars,
                 dialogVars, nViewOps>>

(***************************************************************************)
(* View-state operations.  The controls are rendered only when the page is *)
(* not loading and the mirror is not empty, and they cannot be reached     *)
(* while the AlertDialog, which is modal, is open.                         *)
(***************************************************************************)
DialogOpen == deleteRepo # NoRepo

\* The page behind the dialog can be clicked.  The dialog components are not
\* part of the sources at hand; the open dialog is taken to be modal, so that
\* a deletion is requested only from Idle, as the specification states.
PageReachable == ~DialogOpen

ControlsVisible == ~loading /\ Len(repos) > 0 /\ PageReachable

ResultsVisible == ControlsVisible /\ Len(filteredRepos) > 0

PaginationVisible == ResultsVisible /\ totalPages > 1

\* uniqueLanguages: the options of the language select besides "all"
uniqueLanguages ==
  {Repo[repos[i]].language : i \in 1..Len(repos)} \ {NullStr}

\* a change of the search text, a filter or the sort: the memo is recomputed,
\* the reset effect and the clamp effect run (restoring: the change comes from
\* one of the two reset buttons)
ChangeView(newView, op, restoring) ==
  /\ ControlsVisible
  /\ (restoring \/ UserOps < MaxUserOps)
  /\ newView # view
  /\ searchQuery' = newView.searchQuery
  /\ visibilityFilter' = newView.visibilityFilter
  /\ forkFilter' = newView.forkFilter
  /\ languageFilter' = newView.languageFilter
  /\ sortBy' = newView.sortBy
  /\ sortOrder' = newView.sortOrder
  /\ \E r \in {Rendered(repos, newView, currentPage, TRUE)} :
       /\ repos' = r.repos
       /\ filteredRepos' = r.filteredRepos
       /\ currentPage' = r.currentPage
  /\ nViewOps' = IF restoring THEN nViewOps ELSE nViewOps + 1
  /\ toasts' = <<>>
  /\ lastOp' = Op(op, currentPage)
  /\ UNCHANGED <<setupVars, syncVars, dialogVars>>

SetSearchQuery(q) == ChangeView([view EXCEPT !.searchQuery = q], "SetSearchQuery", FALSE)

SetVisibilityFilter(v) ==
  ChangeView([view EXCEPT !.visibilityFilter = v], "SetVisibilityFilter", FALSE)

SetForkFilter(v) == ChangeView([view EXCEPT !.forkFilter = v], "SetForkFilter", FALSE)

SetLanguageFilter(v) ==
  /\ v \in uniqueLanguages \cup {AllFilter}
  /\ ChangeView([view EXCEPT !.languageFilter = v], "SetLanguageFilter", FALSE)

SetSortBy(v) == ChangeView([view EXCEPT !.sortBy = v], "SetSortBy", FALSE)

SetSortOrder(v) == ChangeView([view EXCEPT !.sortOrder = v], "SetSortOrder", FALSE)

\* the Reset button, shown while a filter or the sort is not the default
ResetFilters ==
  /\ \/ visibilityFilter # "all" \/ forkFilter # "all" \/ languageFilter # AllFilter
     \/ sortBy # "name" \/ sortOrder # "asc"
  /\ ChangeView(ViewOf(searchQuery, "all", "all", AllFilter, "name", "asc"),
                "ResetFilters", TRUE)

\* the "Clear all filters" button of the empty result
ClearAllFilters ==
  /\ Len(filteredRepos) = 0
  /\ ChangeView(ViewOf(<<>>, "all", "all", AllFilter, sortBy, sortOrder),
                "ClearAllFilters", TRUE)

\* a setCurrentPage from the pagination strip, followed by the clamp effect;
\* the operation is recorded with the page the click was made on
Navigate(page, op) ==
  /\ PaginationVisible
  /\ currentPage' = RenderedSameMemo(repos, filteredRepos, page).currentPage
  /\ toasts' = <<>>
  /\ lastOp' = Op(op, currentPage)
  /\ UNCHANGED <<setupVars, repos, filteredRepos, viewVars, syncVars, dialogVars, nViewOps>>

PreviousPage == Navigate(Max(1, currentPage - 1), "PreviousPage")

NextPage == Navigate(Min(totalPages, currentPage + 1), "NextPage")

GoToPage(i) ==
  LET strip == getPageNumbers(totalPages, currentPage)
  IN /\ i \in 1..Len(strip)
     /\ strip[i] # Ellipsis
     /\ Navigate(strip[i], "GoToPage")

(***************************************************************************)
(* The deletion dialog and handleDeleteRepo.                               *)
(***************************************************************************)
\* the trash button of a card of the current page; the open dialog is modal
RequestDeletion(id) ==
  /\ ResultsVisible
  /\ UserOps < MaxUserOps
  /\ \E i \in 1..Len(paginatedRepos) : paginatedRepos[i] = id
  /\ deleteRepo' = id
  /\ nRequests' = nRequests + 1
  /\ toasts' = <<>>
  /\ lastOp' = Op("RequestDeletion", 0)
  /\ UNCHANGED <<setupVars, repos, filteredRepos, currentPage, viewVars, syncVars,
                 deleting, deleteCalls, nDeletes, nViewOps>>

\* variant: onOpenChange without its test of deleting, Cancel never disabled
CanDismissWhileDeleting == TRUE

\* variant: the test of deleting inverted
CanDismissOnlyWhileDeleting == deleting

\* onOpenChange(false) clears the pending deletion only when no request is
\* in flight, and the Cancel button is disabled while one is
CanDismiss == ~deleting

\* Cancel, or a dismissal of the dialog: onOpenChange(false)
CancelDeletion ==
  /\ deleteRepo # NoRepo
  /\ CanDismiss
  /\ deleteRepo' = NoRepo
  /\ toasts' = <<>>
  /\ lastOp' = Op("CancelDeletion", 0)
  /\ UNCHANGED <<setupVars, repos, filteredRepos, currentPage, viewVars, syncVars,
                 deleting, deleteCalls, nDeletes, nRequests, nViewOps>>

\* variant: handleDeleteRepo without its guard on deleteRepo
ConfirmEnabledUnguarded == ~deleting

\* variant: the Delete button is not disabled while a request is in flight
ConfirmEnabledWhileDeleting == deleteRepo # NoRepo

\* the Delete button is enabled and handleDeleteRepo passes its guard
ConfirmEnabled == deleteRepo # NoRepo /\ ~deleting

\* variant: the action button closes the dialog once onClick has returned
PendingAfterActionCleared(pending) == NoRepo

\* The pending deletion once the action button of the dialog has called
\* onClick.  The dialog components (components/ui/alert-dialog) are not part
\* of the sources at hand; the pending deletion is taken to stay set while
\* the request is in flight, as the specification of the deletion states.
PendingAfterAction(pending) == pending

\* the Delete button: handleDeleteRepo up to its await
ConfirmDeletion ==
  /\ ConfirmEnabled
  /\ deleting' = TRUE
  /\ deleteCalls' = Append(deleteCalls, deleteRepo)
  /\ nDeletes' = nDeletes + 1
  /\ deleteRepo' = PendingAfterAction(deleteRepo)
  /\ toasts' = <<>>
  /\ lastOp' = Op("ConfirmDeletion", 0)
  /\ UNCHANGED <<setupVars, repos, filteredRepos, currentPage, viewVars, syncVars,
                 nRequests, nViewOps>>

\* prev.filter((r) => r.id !== deleteRepo.id)
RemoveById(prev, id) ==
  LET Keep(r) == r # id
  IN SelectSeq(prev, Keep)

\* variant: the item is removed before the response is looked at
MirrorAfterDeleteOptimistic(prev, id, ok) == RemoveById(prev, id)

\* the mirror handleDeleteRepo leaves: setRepos runs only behind response.ok
MirrorAfterDelete(prev, id, ok) == IF ok THEN RemoveById(prev, id) ELSE prev

\* the DELETE request settles with a 2xx response
DeleteSucceeded ==
  LET target == Head(deleteCalls)
  IN /\ deleteCalls # <<>>
     /\ \E r \in {Rendered(MirrorAfterDelete(repos, target, TRUE), view,
                           currentPage, FALSE)} :
          /\ repos' = r.repos
          /\ filteredRepos' = r.filteredRepos
          /\ currentPage' = r.currentPage
     /\ toasts' = <<Toast("Repository deleted", <<"deleted">>, "default")>>
     /\ deleting' = FALSE
     /\ deleteRepo' = NoRepo
     /\ deleteCalls' = Tail(deleteCalls)
     /\ lastOp' = Op("DeleteSucceeded", currentPage)
     /\ sync' = AfterDeletion(sync, target)
     /\ UNCHANGED <<setupVars, viewVars, userProfile, loading, nDeletes, nRequests, nViewOps>>

\* the DELETE request settles with a non-2xx response or a network error
DeleteFailed(error) ==
  /\ deleteCalls # <<>>
  /\ repos' = MirrorAfterDelete(repos, Head(deleteCalls), FALSE)
  /\ toasts' = <<Toast("Error deleting repository", DeleteErrorMessage(error),
                       "destructive")>>
  /\ deleting' = FALSE
  /\ deleteRepo' = NoRepo
  /\ deleteCalls' = Tail(deleteCalls)
  /\ lastOp' = FailedOp("DeleteFailed", 0, error)
  /\ UNCHANGED <<setupVars, filteredRepos, currentPage, viewVars, syncVars,
                 nDeletes, nRequests, nViewOps>>

(***************************************************************************)
(* Specification.                                                          *)
(***************************************************************************)
Next ==
  \/ TokenChange
  \/ ProfileResponse("ok")
  \/ \E e \in ProfileFailures : ProfileResponse(e)
  \/ \E body \in PageBodies, link \in LinkHeaders : ReposPage(body, link)
  \/ \E e \in ReposFailures : ReposFailure(e)
  \/ \E q \in {<<>>, <<"t", "b", " ">>} : SetSearchQuery(q)
  \/ \E v \in {"all", "public"} : SetVisibilityFilter(v)
  \/ \E v \in {"all", "forks"} : SetForkFilter(v)
  \/ \E v \in {AllFilter, <<"G", "o">>} : SetLanguageFilter(v)
  \/ \E v \in {"name", "stars"} : SetSortBy(v)
  \/ \E v \in {"asc", "desc"} : SetSortOrder(v)
  \/ ResetFilters
  \/ ClearAllFilters
  \/ PreviousPage
  \/ NextPage
  \/ \E i \in 1..7 : GoToPage(i)
  \/ \E id \in {1, 11} : RequestDeletion(id)
  \/ CancelDeletion
  \/ ConfirmDeletion
  \/ DeleteSucceeded
  \/ \E e \in {"http", "http_message", "network"} : DeleteFailed(e)

Spec == Init /\ [][Next]_vars

\* the pending fetch of the run settles
SyncSettles ==
  \/ ProfileResponse("ok")
  \/ \E e \in ProfileFailures : ProfileResponse(e)
  \/ \E e \in ReposFailures : ReposFailure(e)
  \/ \E body \in PageBodies, link \in LinkHeaders : ReposPage(body, link)

\* every fetch settles: the awaited promise resolves or rejects
LiveSpec == Spec /\ WF_vars(SyncSettles)

(***************************************************************************)
(* The derivation on its own: filteredRepos computed once for a mirror and *)
(* a view state drawn from the whole domain of the controls.               *)
(***************************************************************************)
SampleMirrors ==
  {<<>>, SmallBody, BigBody, SmallBody \o SmallBody,
   BigBody \o [i \in 1..(NumRepos - 13) |-> 13 + i]}

DeriveInit ==
  /\ repos \in SampleMirrors
  /\ filteredRepos = <<>>
  /\ userProfile = "loaded"
  /\ loading = FALSE
  /\ currentPage = 1
  /\ deleteRepo = NoRepo
  /\ deleting = FALSE
  /\ searchQuery \in SearchTexts
  /\ visibilityFilter \in {"all", "public", "private"}
  /\ forkFilter \in {"all", "source", "forks"}
  /\ languageFilter \in {<<"G", "o">>, <<"h", "t", "m", "l">>} \cup {AllFilter}
  /\ sortBy \in {"name", "updated", "stars", "forks"}
  /\ sortOrder \in {"asc", "desc"}
  /\ sync = DoneSync
  /\ deleteCalls = <<>>
  /\ nDeletes = 0
  /\ nRequests = 0
  /\ toasts = <<>>
  /\ lastOp = Op("mount", 0)
  /\ nViewOps = 0
  /\ SignedIn

\* the memo is computed for the mirror and the view state
DeriveStep ==
  /\ lastOp.name = "mount"
  /\ \E d \in {Derive(repos, view)} :
       /\ repos' = d.repos
       /\ filteredRepos' = d.filteredRepos
  /\ lastOp' = Op("Derive", 0)
  /\ UNCHANGED <<setupVars, userProfile, loading, currentPage, deleteRepo, deleting,
                 viewVars, sync, deleteCalls, nDeletes, nRequests,
                 toasts, nViewOps>>

\* the memo is computed a second time for the same mirror array, as the
\* first computation left it, and the same view state
DeriveAgain ==
  /\ lastOp.name = "Derive"
  /\ \E d \in {Derive(repos, view)} :
       /\ repos' = d.repos
       /\ filteredRepos' = d.filteredRepos
  /\ lastOp' = Op("DeriveAgain", 0)
  /\ UNCHANGED <<setupVars, userProfile, loading, currentPage, deleteRepo, deleting,
                 viewVars, sync, deleteCalls, nDeletes, nRequests,
                 toasts, nViewOps>>

\* the render computes totalPages and paginatedRepos for a page index
SlicePage(p) ==
  /\ lastOp.name = "Derive"
  /\ currentPage' = p
  /\ lastOp' = Op("SlicePage", p)
  /\ UNCHANGED <<setupVars, repos, filteredRepos, userProfile, loading, deleteRepo,
                 deleting, viewVars, sync, deleteCalls, nDeletes, nRequests,
                 toasts, nViewOps>>

DeriveNext ==
  \/ DeriveStep
  \/ DeriveAgain
  \/ \E p \in 1..4 : SlicePage(p)

DeriveSpec == DeriveInit /\ [][DeriveNext]_vars

(***************************************************************************)
(* The cursor extractor on its own: getNextUrlFromLink applied to the Link *)
(* header of a listing response.                                           *)
(***************************************************************************)
\* longest header of the samples, in entries
MaxEntries == 3

SampleEntries ==
  {LinkEntry(url, rel) : url \in {FirstUrl, NextPageUrl}, rel \in {RelNext, RelPrev}}

RECURSIVE EntryListsOf(_)
EntryListsOf(n) ==
  IF n = 0 THEN {<<>>}
  ELSE {Append(es, e) : es \in EntryListsOf(n - 1), e \in SampleEntries}

\* the lists of at most MaxEntries entries
EntryLists == UNION {EntryListsOf(n) : n \in 0..MaxEntries}

\* texts the pattern does not match: no closing bracket, no brackets, no
\* semicolon, no quotes, no url
UnparseableHeaders ==
  {<<"<", "2", ";", " ", "r", "e", "l", "=", "\"", "n", "e", "x", "t", "\"">>,
   <<"2", ";", " ", "r", "e", "l", "=", "\"", "n", "e", "x", "t", "\"">>,
   <<"<", "2", ">", " ", "r", "e", "l", "=", "\"", "n", "e", "x", "t", "\"">>,
   <<"<", "2", ">", ";", " ", "r", "e", "l", "=", "n", "e", "x", "t">>,
   <<"<", ">", ";", " ", "r", "e", "l", "=", "\"", "n", "e", "x", "t", "\"">>}

SampleHeaders ==
  {LinkHeader(es) : es \in EntryLists} \cup UnparseableHeaders \cup {NullStr}

\* a listing response has arrived and its Link header has been read
LinkInit ==
  /\ repos = <<>>
  /\ filteredRepos = <<>>
  /\ userProfile = "loaded"
  /\ loading = TRUE
  /\ currentPage = 1
  /\ deleteRepo = NoRepo
  /\ deleting = FALSE
  /\ searchQuery = <<>>
  /\ visibilityFilter = "all"
  /\ forkFilter = "all"
  /\ languageFilter = AllFilter
  /\ sortBy = "name"
  /\ sortOrder = "asc"
  /\ \E h \in SampleHeaders : sync = [NewSync EXCEPT !.pc = "repos", !.link = h]
  /\ deleteCalls = <<>>
  /\ nDeletes = 0
  /\ nRequests = 0
  /\ toasts = <<>>
  /\ lastOp = Op("mount", 0)
  /\ nViewOps = 0
  /\ SignedIn

\* const next = getNextUrlFromLink(linkHeader); url = next
ExtractNext ==
  /\ lastOp.name = "mount"
  /\ sync' = [sync EXCEPT !.url = getNextUrlFromLink(sync.link)]
  /\ lastOp' = Op("Extract", 0)
  /\ UNCHANGED <<setupVars, repos, filteredRepos, userProfile, loading, currentPage,
                 viewVars, dialogVars, toasts, nViewOps>>

LinkSpec == LinkInit /\ [][ExtractNext]_vars

(***************************************************************************)
(* The SetupPage and Index on their own: typing, submit, logout, reload.   *)
(* The Dashboard is not stepped here.                                      *)
(***************************************************************************)
dashboardVars ==
  <<repos, filteredRepos, userProfile, loading, currentPage, deleteRepo,
    deleting, viewVars, sync, deleteCalls, nDeletes, nRequests, nViewOps>>

\* first visit: nothing is stored, Index shows the SetupPage with empty inputs
SetupInit ==
  /\ repos = <<>>
  /\ filteredRepos = <<>>
  /\ userProfile = "none"
  /\ loading = TRUE
  /\ currentPage = 1
  /\ deleteRepo = NoRepo
  /\ deleting = FALSE
  /\ searchQuery = <<>>
  /\ visibilityFilter = "all"
  /\ forkFilter = "all"
  /\ languageFilter = AllFilter
  /\ sortBy = "name"
  /\ sortOrder = "asc"
  /\ sync = NewSync
  /\ deleteCalls = <<>>
  /\ nDeletes = 0
  /\ nRequests = 0
  /\ toasts = <<>>
  /\ lastOp = Op("mount", 0)
  /\ nViewOps = 0
  /\ username = <<>>
  /\ token = <<>>
  /\ errors = NoErrors
  /\ localStorage = EmptyStorage
  /\ credentials = NoCredentials

\* the SetupPage is rendered while there is no session
SetupPageShown == credentials = NoCredentials

\* onChange of the username input
TypeUsername(text) ==
  /\ SetupPageShown
  /\ username' = text
  /\ toasts' = <<>>
  /\ lastOp' = Op("TypeUsername", Len(text))
  /\ UNCHANGED <<dashboardVars, token, errors, localStorage, credentials>>

\* onChange of the token input
TypeToken(text) ==
  /\ SetupPageShown
  /\ token' = text
  /\ toasts' = <<>>
  /\ lastOp' = Op("TypeToken", Len(text))
  /\ UNCHANGED <<dashboardVars, username, errors, localStorage, credentials>>

\* handleSubmit: a failed parse shows the messages and a toast and returns;
\* otherwise the parsed values are stored and handed to onSetupComplete,
\* and Index replaces the SetupPage by the Dashboard
Submit ==
  /\ SetupPageShown
  /\ \E result \in {safeParse(username, token)} :
       IF ~result.success
         THEN /\ errors' = FieldErrors(result)
              /\ toasts' = <<Toast("Validation Error",
                                   <<"Please check your inputs and try again">>,
                                   "destructive")>>
              /\ lastOp' = Op("SubmitRejected", 0)
              /\ UNCHANGED <<username, token, localStorage, credentials>>
         ELSE /\ localStorage' = Stored(result.data.username, result.data.token)
              /\ credentials' = Credentials(result.data.username, result.data.token)
              /\ toasts' = <<Toast("Credentials saved",
                                   <<"Your GitHub credentials have been stored securely">>,
                                   "default")>>
              /\ lastOp' = Op("SessionStarted", 0)
              /\ username' = <<>>
              /\ token' = <<>>
              /\ errors' = NoErrors
  /\ UNCHANGED dashboardVars

\* handleLogout, called by the Dashboard; the SetupPage mounts anew
Logout ==
  /\ ~SetupPageShown
  /\ localStorage' = EmptyStorage
  /\ credentials' = NoCredentials
  /\ username' = <<>>
  /\ token' = <<>>
  /\ errors' = NoErrors
  /\ toasts' = <<>>
  /\ lastOp' = Op("Logout", 0)
  /\ UNCHANGED dashboardVars

\* the page is loaded again: the state of the components is new and the
\* useEffect of Index reads the stored items
Reload ==
  /\ credentials' = CredentialsFromStorage(localStorage)
  /\ username' = <<>>
  /\ token' = <<>>
  /\ errors' = NoErrors
  /\ toasts' = <<>>
  /\ lastOp' = Op("Reload", 0)
  /\ UNCHANGED <<dashboardVars, localStorage>>

SetupNext ==
  \/ \E text \in SampleUsernames : TypeUsername(text)
  \/ \E text \in SampleTokens : TypeToken(text)
  \/ Submit
  \/ Logout
  \/ Reload

SetupSpec == SetupInit /\ [][SetupNext]_vars

(***************************************************************************)
(* The page strip on its own: the Dashboard shows a long listing and the   *)
(* user walks through its pages.                                           *)
(***************************************************************************)
\* the longest listing has this many pages
MaxStripPages == 8

\* the place of an item among the items in the order of the names
NameRank(id) ==
  Cardinality({o \in RepoIds : \/ NameOrder[o][id] < 0
                               \/ (NameOrder[o][id] = 0 /\ o < id)}) + 1

\* a listing of n items that arrives in the order of the names, so that the
\* sort of the first render leaves it as it is; the server repeats each item
\* as often as it takes
LongListing(n) ==
  LET copies == (n + NumRepos - 1) \div NumRepos
  IN [i \in 1..n |->
        CHOOSE id \in RepoIds : NameRank(id) = ((i - 1) \div copies) + 1]

\* the sync has committed the listing and the first render is done; for
\* every number of pages, a listing that just begins its last page and one
\* that fills it
StripInit ==
  /\ \E n \in {REPOS_PER_PAGE * k : k \in 1..MaxStripPages}
               \cup {REPOS_PER_PAGE * (k - 1) + 1 : k \in 1..MaxStripPages} :
       /\ repos = LongListing(n)
       /\ filteredRepos = LongListing(n)
  /\ userProfile = "loaded"
  /\ loading = FALSE
  /\ currentPage = 1
  /\ deleteRepo = NoRepo
  /\ deleting = FALSE
  /\ searchQuery = <<>>
  /\ visibilityFilter = "all"
  /\ forkFilter = "all"
  /\ languageFilter = AllFilter
  /\ sortBy = "name"
  /\ sortOrder = "asc"
  /\ sync = DoneSync
  /\ deleteCalls = <<>>
  /\ nDeletes = 0
  /\ nRequests = 0
  /\ toasts = <<>>
  /\ lastOp = Op("mount", 0)
  /\ nViewOps = 0
  /\ SignedIn

StripNext ==
  \/ PreviousPage
  \/ NextPage
  \/ \E i \in 1..7 : GoToPage(i)

StripSpec == StripInit /\ [][StripNext]_vars

(***************************************************************************)
(* Properties.                                                             *)
(***************************************************************************)
ViewOpNames ==
  {"SetSearchQuery", "SetVisibilityFilter", "SetForkFilter", "SetLanguageFilter",
   "SetSortBy", "SetSortOrder", "ResetFilters", "ClearAllFilters"}

NavOpNames == {"PreviousPage", "NextPage", "GoToPage"}

\* occurrences of an id in a list of repositories
Count(items, id) == Cardinality({i \in 1..Len(items) : items[i] = id})

SuccessToast == Toast("Repository deleted", <<"deleted">>, "default")

\* C1: deriving the view never mutates the mirror: a change of the search
\* text, a filter, the sort key, the sort direction or the page leaves the
\* mirror's items and their order as they were.
C1_ViewOpsLeaveMirror ==
  [][lastOp'.name \in ViewOpNames \cup NavOpNames => repos' = repos]_vars

\* C2: a sync cancelled while it is pending, in particular after some page
\* was received and before the last, has written nothing to the mirror, and
\* its settlement raises no notification and leaves the mirror as it is.
C2_CancelledSyncSilent ==
  [][(lastOp'.name = "TokenChange" /\ sync.pc # "done")
       => /\ ~sync.wrote
          /\ repos' = repos
          /\ filteredRepos' = filteredRepos
          /\ toasts' = <<>>]_vars

\* a run is cancelled after it received its first page and before the last
C2_Witness ==
  /\ lastOp.name = "TokenChange"
  /\ lastOp.arg >= 1
  /\ toasts = <<>>

\* C3: a failure of a listing request that is not a cancellation ends the
\* run, and neither this step nor an earlier step of the run has written the
\* mirror: the items of the pages already received are dropped.
C3_FailedSyncKeepsMirror ==
  [][lastOp'.name = "ReposFailed"
       => /\ ~sync.wrote
          /\ repos' = repos
          /\ filteredRepos' = filteredRepos
          /\ sync'.pc = "done"
          /\ sync'.allRepos = <<>>]_vars

\* a listing request fails after a page with items was received
C3_Witness ==
  /\ lastOp.name = "ReposFailed"
  /\ lastOp.arg > 0
  /\ sync.pc = "done"

\* C4: a successful deletion of X on a mirror of size N that contains X
\* leaves a mirror of size N-1 without X and with every other item, raises
\* exactly the success notification, and leaves the dialog idle.
C4_DeletionRemovesOne ==
  [][(lastOp'.name = "DeleteSucceeded" /\ deleteCalls # <<>>
        /\ Count(repos, Head(deleteCalls)) > 0)
       => LET x == Head(deleteCalls)
          IN /\ Len(repos') = Len(repos) - 1
             /\ Count(repos', x) = 0
             /\ \A id \in RepoIds \ {x} : Count(repos', id) = Count(repos, id)
             /\ toasts' = <<SuccessToast>>
             /\ deleteRepo' = NoRepo
             /\ ~deleting']_vars

\* C5: a failed deletion leaves the mirror unchanged, raises exactly one
\* failure notification and no success notification, and leaves the dialog
\* idle with no pending deletion.
C5_FailedDeletionKeepsMirror ==
  [][lastOp'.name = "DeleteFailed"
       => /\ repos' = repos
          /\ filteredRepos' = filteredRepos
          /\ Len(toasts') = 1
          /\ toasts'[1].title = "Error deleting repository"
          /\ toasts'[1].variant = "destructive"
          /\ deleteRepo' = NoRepo
          /\ ~deleting'
          /\ deleteCalls' = <<>>]_vars

\* a deletion failed with a non-2xx response on a mirror that holds the item
C5_Witness ==
  /\ lastOp.name = "DeleteFailed"
  /\ toasts # <<>>
  /\ lastOp.error = "http"
  /\ Count(repos, 11) = 1
  /\ deleteRepo = NoRepo

\* C6: a DELETE request is issued only by a confirmation, made while an item
\* is pending and for exactly that item; the pending item is set only by a
\* request for deletion, and a cancellation clears it.
C6_DeleteOnlyAfterConfirm ==
  [][/\ (nDeletes' # nDeletes \/ Len(deleteCalls') > Len(deleteCalls))
          => /\ lastOp'.name = "ConfirmDeletion"
             /\ deleteRepo # NoRepo
             /\ nDeletes' = nDeletes + 1
             /\ deleteCalls' = Append(deleteCalls, deleteRepo)
     /\ (deleteRepo' # NoRepo /\ deleteRepo' # deleteRepo)
          => lastOp'.name = "RequestDeletion"
     /\ lastOp'.name = "CancelDeletion"
          => deleteRepo' = NoRepo /\ deleteCalls' = deleteCalls]_vars

\* a confirmation has issued the DELETE request for the pending item
C6_Witness ==
  /\ lastOp.name = "ConfirmDeletion"
  /\ deleteRepo # NoRepo
  /\ deleteCalls = <<deleteRepo>>

\* C7: the mirror never holds two items with the same id.
C7_NoDuplicateIds ==
  \A i, j \in 1..Len(repos) : i # j => repos[i] # repos[j]

\* C8: once a change of the search text, a filter, the sort key or the sort
\* direction has been processed, the page is 1.
C8_PageResetOnChange ==
  lastOp.name \in ViewOpNames => currentPage = 1

\* C9: when the result shrinks or is replaced without a change of filter or
\* sort (a deletion, a commit of a sync), the page becomes the new number of
\* pages if it exceeded it, and is left unchanged otherwise.
C9_PageClampedOnShrink ==
  [][lastOp'.name \in {"DeleteSucceeded", "SyncCommitted"}
       => currentPage' = IF currentPage > totalPagesOf(filteredRepos')
                           THEN totalPagesOf(filteredRepos')
                           ELSE currentPage]_vars

\* a deletion emptied the last page and the page moved to the new last page
C9_Witness ==
  /\ lastOp.name = "DeleteSucceeded"
  /\ lastOp.arg > currentPage
  /\ currentPage = totalPages
  /\ Len(filteredRepos) > 0

\* a substring of the field equals the text up to the case of the letters
ContainsIgnoringCase(field, text) ==
  \E i \in 0..(Len(field) - Len(text)) :
    \A k \in 1..Len(text) : LowerChar(field[i + k]) = LowerChar(text[k])

\* the four filters as one predicate on an item
PassesFilters(id) ==
  LET text == trim(searchQuery)
  IN /\ \/ text = <<>>
        \/ ContainsIgnoringCase(RepoName(id), text)
        \/ (RepoDescription(id) # NullStr
              /\ ContainsIgnoringCase(RepoDescription(id), text))
        \/ (RepoLanguage(id) # NullStr
              /\ ContainsIgnoringCase(RepoLanguage(id), text))
     /\ visibilityFilter = "public" => id % 2 # 0
     /\ visibilityFilter = "private" => id % 2 = 0
     /\ forkFilter = "source" => id % 3 # 1
     /\ forkFilter = "forks" => id % 3 = 1
     /\ languageFilter # AllFilter => RepoLanguage(id) = languageFilter

\* C10: the derived result holds exactly the mirror items that pass the four
\* filters, each as often as the mirror holds it, so the excluded items and
\* the result add up to the mirror; the text matches as a substring of name,
\* description or language whatever the case, and a null field does not keep
\* the other fields from matching.
C10_ResultIsFilteredMirror ==
  lastOp.name = "Derive"
    => /\ \A id \in RepoIds :
            Count(filteredRepos, id) = IF PassesFilters(id) THEN Count(repos, id) ELSE 0
       /\ Len(filteredRepos)
            + Cardinality({i \in 1..Len(repos) : ~PassesFilters(repos[i])})
            = Len(repos)

\* the text matches the language of an item whose description is null and
\* whose name does not match, and other items are filtered out
C10_Witness ==
  /\ lastOp.name = "Derive"
  /\ searchQuery = <<"G", "o", " ">>
  /\ visibilityFilter = "private"
  /\ Count(filteredRepos, 4) = 1
  /\ RepoDescription(4) = NullStr
  /\ ~ContainsIgnoringCase(RepoName(4), <<"G", "o">>)
  /\ Len(filteredRepos) < Len(repos)

\* C11: a successful sync replaces the mirror, in the one step that follows
\* its last page, by the items of all its pages in arrival order; a page
\* that is not the last leaves the mirror as it is.
C11_SyncReplacesInArrivalOrder ==
  [][/\ lastOp'.name = "SyncCommitted"
          => \E body \in PageBodies : repos' = sync.allRepos \o body
     /\ lastOp'.name = "PageReceived" => repos' = repos]_vars

\* C12: the settlement of a sync superseded by a new one changes no shared
\* state: the mirror and the profile stay, the loading flag keeps the value
\* the new sync gave it, and no notification is raised.
C12_CancelledSyncInert ==
  [][lastOp'.name = "TokenChange"
       => /\ repos' = repos
          /\ userProfile' = userProfile
          /\ loading' = TRUE
          /\ toasts' = <<>>]_vars

\* C13: a failure of the profile lookup that is not a cancellation does not
\* end the sync: the first listing request follows as after a successful
\* lookup, with nothing written to the mirror, and the commit of the run
\* installs the mirror the same pages give after a successful lookup.
C13_ProfileFailureKeepsSync ==
  [][/\ lastOp'.name = "ProfileFailed"
          => /\ sync'.pc = "repos"
             /\ sync'.allRepos = <<>>
             /\ sync'.url = NewSync.url
             /\ loading'
             /\ repos' = repos
     /\ (lastOp'.name = "SyncCommitted" /\ userProfile = "none")
          => \E body \in PageBodies :
               /\ repos' = Rendered(sync.allRepos \o body, view, currentPage, FALSE).repos
               /\ Len(repos') = Len(sync.allRepos) + Len(body)]_vars

\* a sync whose profile lookup failed has committed a two-page collection
C13_Witness ==
  /\ lastOp.name = "SyncCommitted"
  /\ userProfile = "none"
  /\ sync.pc = "done"
  /\ Len(repos) > Len(BigBody)

\* C14: a sync whose listing loop ends in a failure that is not a
\* cancellation has raised exactly one failure notification, counting those
\* raised earlier in the same run.
C14_OneFailureNotification ==
  [][lastOp'.name = "ReposFailed" => sync.notified + Len(toasts') = 1]_vars

\* C15: a confirmation is made only while no deletion is in flight and
\* issues exactly one DELETE request, for the pending item; at most one
\* DELETE request is outstanding at any time.
C15_OneDeleteInFlight ==
  [][/\ Len(deleteCalls') <= 1
     /\ deleting' <=> deleteCalls' # <<>>
     /\ lastOp'.name = "ConfirmDeletion"
          => /\ ~deleting
             /\ deleteCalls = <<>>
             /\ deleteCalls' = <<deleteRepo>>
             /\ nDeletes' = nDeletes + 1]_vars

\* a DELETE request for item 1 is outstanding and the Delete button is
\* disabled
C15_Witness ==
  /\ deleting
  /\ deleteCalls = <<1>>
  /\ nDeletes = 1
  /\ ~ConfirmEnabled

C18_CancelOnlyClearsPending ==
  [][/\ (deleteRepo # NoRepo /\ ~deleting) => ENABLED CancelDeletion
     /\ lastOp'.name = "CancelDeletion"
          => /\ deleteRepo' = NoRepo
             /\ ~deleting'
             /\ deleteCalls' = <<>>
             /\ nDeletes' = nDeletes
             /\ toasts' = <<>>
             /\ repos' = repos
             /\ filteredRepos' = filteredRepos
             /\ currentPage' = currentPage
             /\ viewVars' = viewVars]_vars

\* a deletion awaiting confirmation was cancelled on the second page
C18_Witness ==
  /\ lastOp.name = "CancelDeletion"
  /\ deleteRepo = NoRepo
  /\ nRequests = 1
  /\ nDeletes = 0
  /\ currentPage = 2

\* C19: derive is idempotent: computed twice in a row for the same mirror
\* array and the same view state, the second computation returns the same
\* ordered result and the same total count as the first.
C19_DeriveIdempotent ==
  [][lastOp'.name = "DeriveAgain"
       => /\ filteredRepos' = filteredRepos
          /\ Len(filteredRepos') = Len(filteredRepos)]_vars

\* the second computation ran on a mirror the first one had sorted in place,
\* with items of equal key next to each other in the result
C19_Witness ==
  /\ lastOp.name = "DeriveAgain"
  /\ sortBy = "stars"
  /\ repos = filteredRepos
  /\ \E i \in 1..(Len(filteredRepos) - 1) :
       /\ filteredRepos[i] # filteredRepos[i + 1]
       /\ Repo[filteredRepos[i]].stargazers_count
            = Repo[filteredRepos[i + 1]].stargazers_count

\* the sort key of an item: the name by its letters whatever their case,
\* the other keys as numbers
KeyLess(a, b) ==
  CASE sortBy = "name" ->
         CompareWeights(PrimaryWeights(toLowerCase(RepoName(a))),
                        PrimaryWeights(toLowerCase(RepoName(b)))) < 0
    [] sortBy = "updated" -> Repo[a].updated_at < Repo[b].updated_at
    [] sortBy = "stars" -> Repo[a].stargazers_count < Repo[b].stargazers_count
    [] sortBy = "forks" -> Repo[a].forks_count < Repo[b].forks_count

KeysDistinct(items) ==
  \A i, j \in 1..Len(items) :
    i # j => (KeyLess(items[i], items[j]) \/ KeyLess(items[j], items[i]))

Reversed(items) == [i \in 1..Len(items) |-> items[Len(items) + 1 - i]]

OtherOrder == IF sortOrder = "asc" THEN "desc" ELSE "asc"

\* C20: the ordered result is sorted by the sort key, keys non-decreasing
\* when ascending and non-increasing when descending, names compared by
\* their letters whatever the case; when the keys of the result are pairwise
\* distinct, the result in the other direction is its exact reverse.
C20_ResultSortedByKey ==
  lastOp.name = "Derive"
    => /\ \A i \in 1..(Len(filteredRepos) - 1) :
            IF sortOrder = "asc"
              THEN ~KeyLess(filteredRepos[i + 1], filteredRepos[i])
              ELSE ~KeyLess(filteredRepos[i], filteredRepos[i + 1])
       /\ KeysDistinct(filteredRepos)
            => Derive(repos, [view EXCEPT !.sortOrder = OtherOrder]).filteredRepos
                 = Reversed(filteredRepos)

\* beta, Alpha, gamma sorted by name: Alpha, beta, gamma ascending
C20_Witness ==
  /\ lastOp.name = "Derive"
  /\ sortBy = "name"
  /\ sortOrder = "asc"
  /\ filteredRepos = <<2, 1, 3>>
  /\ RepoName(2) = <<"A", "l", "p", "h", "a">>
  /\ RepoName(1) = <<"b", "e", "t", "a">>
  /\ KeysDistinct(filteredRepos)
  /\ Derive(repos, [view EXCEPT !.sortOrder = "desc"]).filteredRepos = <<3, 1, 2>>

\* two items have the same sort key
SameKey(a, b) == ~KeyLess(a, b) /\ ~KeyLess(b, a)

\* The place of an item in the arrival order.  Every body of the listing
\* holds its items by ascending id, all bodies begin with id 1, and a deletion
\* keeps the order of the others, so on a mirror without duplicate ids the
\* items arrived in the order of their ids.
ArrivedBefore(a, b) == a < b

\* no id stands twice in a list of repositories
DistinctIds(items) == \A i, j \in 1..Len(items) : i # j => items[i] # items[j]

\* C21: items with equal sort keys stand in the ordered result in the order
\* in which they arrived in the mirror, whatever the sort direction and
\* whatever changes of sort and filter came before.
C21_TiesInArrivalOrder ==
  DistinctIds(repos)
    => \A i, j \in 1..Len(filteredRepos) :
         (i < j /\ SameKey(filteredRepos[i], filteredRepos[j]))
           => ArrivedBefore(filteredRepos[i], filteredRepos[j])

\* the slices of the pages p..total, one after the other
RECURSIVE SlicesFrom(_, _, _)
SlicesFrom(filtered, p, total) ==
  IF p > total THEN <<>>
  ELSE paginatedReposOf(filtered, p) \o SlicesFrom(filtered, p + 1, total)

\* C22: with page size 12 the number of pages is max(1, ceil(n / 12)); the
\* slice of a page p in 1..totalPages is the part of the result at offset
\* 12*(p-1) of length min(12, n - 12*(p-1)); the slices of all pages, one
\* after the other, are the result; a page index beyond the last page is not
\* clamped by the slicing, which yields no item for it.
C22_PageSlices ==
  lastOp.name = "SlicePage"
    => LET n == Len(filteredRepos)
           offset == 12 * (currentPage - 1)
       IN /\ totalPages >= 1
          /\ n <= 12 * totalPages
          /\ totalPages > 1 => n > 12 * (totalPages - 1)
          /\ currentPage \in 1..totalPages
               => /\ Len(paginatedRepos) = Min(12, n - offset)
                  /\ \A i \in 1..Len(paginatedRepos) :
                       paginatedRepos[i] = filteredRepos[offset + i]
          /\ currentPage > totalPages => paginatedRepos = <<>>
          /\ SlicesFrom(filteredRepos, 1, totalPages) = filteredRepos

\* 25 items give 3 pages, and page 3 holds exactly 1 item
C22_Witness ==
  /\ lastOp.name = "SlicePage"
  /\ Len(filteredRepos) = 25
  /\ totalPages = 3
  /\ currentPage = 3
  /\ Len(paginatedRepos) = 1

\* positions of the entries of a list whose relation is "next"
NextPositions(entries) == {i \in 1..Len(entries) : entries[i].rel = RelNext}

\* the url a list of entries names as the next page, if any
NextOf(entries) ==
  IF NextPositions(entries) = {} THEN NoUrl
  ELSE entries[CHOOSE i \in NextPositions(entries) :
                 \A j \in NextPositions(entries) : i <= j].url

\* C23: for a header of comma-separated <url>; rel="name" entries the
\* extractor returns the url of the entry whose relation is "next", wherever
\* it stands among the entries; it returns null when the header is absent,
\* holds no "next" entry or cannot be parsed.
C23_NextUrlExtracted ==
  lastOp.name = "Extract"
    => /\ \A es \in EntryLists : sync.link = LinkHeader(es) => sync.url = NextOf(es)
       /\ sync.link \in UnparseableHeaders \cup {NullStr} => sync.url = NoUrl

\* the "next" entry stands last of three and its url is returned
C23_Witness ==
  /\ lastOp.name = "Extract"
  /\ sync.link = LinkHeader(<<LinkEntry(FirstUrl, RelPrev), LinkEntry(FirstUrl, RelPrev),
                              LinkEntry(NextPageUrl, RelNext)>>)
  /\ sync.url = NextPageUrl

\* C24: the fetch loop goes on exactly while the last response named a next
\* page: a listing request is outstanding only for such a url, the response
\* without one ends the run by committing the mirror with no further
\* request, so that a chain of k pages takes k requests; and whatever the
\* outcome of a sync, the loading flag is false again later.
C24_LoopEndsWithLastPage ==
  /\ [](sync.pc = "repos" => sync.url # NoUrl)
  /\ [][/\ (lastOp'.name = "PageReceived")
             => (sync'.pc = "repos" /\ sync'.page = sync.page + 1)
        /\ (lastOp'.name = "SyncCommitted")
             => (/\ sync.pc = "repos"
                 /\ sync'.pc = "done"
                 /\ sync'.url = NoUrl
                 /\ sync'.wrote
                 /\ ~loading')]_vars
  /\ []<>(~loading)

\* a chain of two pages was fetched with two requests and committed
C24_Witness ==
  /\ lastOp.name = "SyncCommitted"
  /\ sync.pc = "done"
  /\ Len(repos) = 2 * Len(FullBody)
  /\ ~loading

FailedOpNames == {"ProfileFailed", "ReposFailed", "DeleteFailed"}

\* what the notifications of a step carry, taken together
Surfaced(ts) == UNION {{ts[i].description[k] : k \in 1..Len(ts[i].description)} :
                         i \in 1..Len(ts)}

\* C25: every non-2xx response to a listing, profile or delete request is
\* surfaced as a failure that carries the HTTP status and, exactly when the
\* JSON body of the response has a message, that message.
C25_FailureCarriesStatusAndMessage ==
  [][(lastOp'.name \in FailedOpNames /\ lastOp'.error \in {"http", "http_message"})
       => /\ "status" \in Surfaced(toasts')
          /\ "message" \in Surfaced(toasts') <=> lastOp'.error = "http_message"]_vars

\* C26: an item whose deletion has settled with success is in the mirror
\* again only if a listing request issued after that returned it: a sync
\* that was awaiting a listing response when the deletion settled does not
\* put the item back when it commits.
C26_DeletedStaysDeleted ==
  lastOp.name = "SyncCommitted" => \A id \in sync.deleted : Count(repos, id) = 0

\* C27: the listing requests of a sync form a sequential chain: at most one
\* is outstanding, and one is outstanding exactly while the run awaits a
\* listing response; the next request is issued in the step that received
\* the previous page with a next url; a failed request ends the run with no
\* request outstanding.
C27_SequentialChain ==
  /\ [](/\ sync.inFlight \in {0, 1}
        /\ sync.inFlight = 1 <=> sync.pc = "repos")
  /\ [][/\ (lastOp'.name = "PageReceived")
             => (/\ sync.inFlight = 1
                 /\ sync'.inFlight = 1
                 /\ sync'.page = sync.page + 1
                 /\ sync'.url # NoUrl)
        /\ (lastOp'.name = "ReposFailed")
             => (/\ sync.inFlight = 1
                 /\ sync'.inFlight = 0
                 /\ sync'.pc = "done")]_vars

\* the request for the second page failed after the first page was received,
\* and the run ended there
C27_Witness ==
  /\ lastOp.name = "ReposFailed"
  /\ lastOp.arg = Len(FullBody)
  /\ lastOp.error = "network"
  /\ sync.pc = "done"
  /\ sync.inFlight = 0

\* C28: once the effects of a render have run, the page is between 1 and the
\* number of pages of the result, whatever filter, sort, navigation, deletion
\* or commit of a sync came before; Previous on page 1 and Next on the last
\* page leave the page unchanged.
C28_PageWithinRange ==
  /\ [](1 <= currentPage /\ currentPage <= totalPages)
  /\ [][/\ (lastOp'.name = "PreviousPage" /\ currentPage = 1)
             => currentPage' = 1
        /\ (lastOp'.name = "NextPage" /\ currentPage = totalPages)
             => currentPage' = currentPage
        /\ (lastOp'.name = "GoToPage")
             => (1 <= currentPage' /\ currentPage' <= totalPages)]_vars

\* Next was clicked on the last of several pages and the page stayed
C28_Witness ==
  /\ lastOp.name = "NextPage"
  /\ lastOp.arg = totalPages
  /\ totalPages > 1
  /\ currentPage = totalPages

\* C29: while the sync that is not cancelled is in flight the loading flag is
\* true, so the view of the empty collection is not presented.
C29_LoadingWhileInFlight ==
  sync.pc # "done" => loading

\* the positions of a text that hold something else than white space
Inked(text) == {i \in 1..Len(text) : text[i] # " "}

\* a text without the white space before its first and after its last
\* character that is not white space
Core(text) ==
  IF Inked(text) = {} THEN <<>>
  ELSE SubSeq(text,
              CHOOSE i \in Inked(text) : \A j \in Inked(text) : i <= j,
              CHOOSE i \in Inked(text) : \A j \in Inked(text) : j <= i)

\* the visibility, fork and language filters as one predicate on an item
PassesSelects(id) ==
  /\ visibilityFilter = "public" => id % 2 # 0
  /\ visibilityFilter = "private" => id % 2 = 0
  /\ forkFilter = "source" => id % 3 # 1
  /\ forkFilter = "forks" => id % 3 = 1
  /\ languageFilter # AllFilter => RepoLanguage(id) = languageFilter

\* C30: the text filter works on the search text without its surrounding
\* white space: a text that is empty or only white space excludes no item,
\* and a text with surrounding white space gives the result of the same text
\* without it.
C30_SearchTextTrimmed ==
  lastOp.name = "Derive"
    => /\ Core(searchQuery) = <<>>
            => \A id \in RepoIds :
                 Count(filteredRepos, id)
                   = IF PassesSelects(id) THEN Count(repos, id) ELSE 0
       /\ filteredRepos
            = Derive(repos, [view EXCEPT !.searchQuery = Core(searchQuery)]).filteredRepos

\* a text typed with a leading blank matched the language of an item that no
\* text holding a blank could match
C30_Witness ==
  /\ lastOp.name = "Derive"
  /\ searchQuery = <<" ", "G", "o">>
  /\ Core(searchQuery) # searchQuery
  /\ Count(filteredRepos, 4) = 1
  /\ ~ContainsIgnoringCase(RepoName(4), searchQuery)
  /\ ~ContainsIgnoringCase(RepoLanguage(4), searchQuery)
  /\ Len(filteredRepos) < Len(repos)

\* the conditions under which a credential is refused, on the text without
\* its surrounding white space
UsernameRefused(text) ==
  \/ text = <<>>
  \/ Len(text) > 39
  \/ \E i \in 1..Len(text) :
       text[i] \notin AlphaNumerics \cup {"-"}

TokenRefused(text) ==
  \/ text = <<>>
  \/ Len(text) > 255
  \/ \A prefix \in {<<"g", "h", "p", "_">>,
                    <<"g", "i", "t", "h", "u", "b", "_", "p", "a", "t", "_">>} :
       \/ Len(text) < Len(prefix)
       \/ SubSeq(text, 1, Len(prefix)) # prefix

\* C31: a submit of a refused username or token writes nothing to the storage
\* and starts no session; a submit that starts a session starts it with, and
\* stores, the typed texts without their surrounding white space, neither of
\* them refused; a logout removes both stored items and ends the session.
C31_SessionOnlyWithValidCredentials ==
  [][/\ (lastOp'.name \in {"SubmitRejected", "SessionStarted"}
           /\ (UsernameRefused(Core(username)) \/ TokenRefused(Core(token))))
          => (/\ localStorage' = localStorage
              /\ credentials' = NoCredentials)
     /\ (credentials = NoCredentials /\ credentials' # NoCredentials)
          => (/\ lastOp'.name = "SessionStarted"
              /\ credentials'.username = Core(username)
              /\ credentials'.token = Core(token)
              /\ ~UsernameRefused(credentials'.username)
              /\ ~TokenRefused(credentials'.token)
              /\ localStorage'.github_username = credentials'.username
              /\ localStorage'.github_token = credentials'.token)
     /\ (lastOp'.name = "Logout")
          => (/\ localStorage' = EmptyStorage
              /\ credentials' = NoCredentials)]_vars

\* a username of 40 characters was submitted with a well-formed token, and
\* nothing was stored and no session started
C31_Witness ==
  /\ lastOp.name = "SubmitRejected"
  /\ Len(username) = 40
  /\ ~TokenRefused(Core(token))
  /\ token # <<>>
  /\ errors.username = "Username must be less than 39 characters"
  /\ errors.token = ""
  /\ localStorage = EmptyStorage
  /\ credentials = NoCredentials

\* the positions of the strip that hold a page number
Numbered(strip) == {i \in 1..Len(strip) : strip[i] # Ellipsis}

\* C32: for a page between 1 and the number of pages, the page numbers of the
\* strip increase strictly, page 1, the last page and the current page are
\* among them, a strip of at most 5 pages lists every page, and an ellipsis
\* stands only between two page numbers that are not consecutive.
C32_StripWellFormed ==
  \E strip \in {getPageNumbers(totalPages, currentPage)} :
    /\ \A i \in Numbered(strip) : \A j \in Numbered(strip) :
         i < j => strip[i] < strip[j]
    /\ \A p \in {1, totalPages, currentPage} :
         \E i \in Numbered(strip) : strip[i] = p
    /\ \A i \in Numbered(strip) : strip[i] \in 1..totalPages
    /\ totalPages <= 5
         => /\ Len(strip) = totalPages
            /\ \A p \in 1..totalPages : strip[p] = p
    /\ \A i \in (1..Len(strip)) \ Numbered(strip) :
         /\ i - 1 \in Numbered(strip)
         /\ i + 1 \in Numbered(strip)
         /\ strip[i + 1] > strip[i - 1] + 1

\* a page in the middle of a long listing was chosen in the strip, which
\* shows it between two ellipses
C32_Witness ==
  /\ lastOp.name = "GoToPage"
  /\ totalPages >= 7
  /\ currentPage > 3
  /\ currentPage < totalPages - 2
  /\ Len(getPageNumbers(totalPages, currentPage)) = 7
  /\ Cardinality(Numbered(getPageNumbers(totalPages, currentPage))) = 5

====
